---- MODULE Spec2Model ----
(***************************************************************************)
(* Model of the ccverify verification engine of CursorCult                 *)
(* (src/src/cursorcult/ccverify.py).  A repository snapshot (working       *)
(* directory + git metadata) is the input; the functions of ccverify.py    *)
(* are operators over the snapshot; each public entry point is an action   *)
(* that records its return value (or the exception it propagates).         *)
(*                                                                         *)
(* Texts are sequences of one-character strings.  An Optional value is a   *)
(* sequence of length 0 (None) or 1.                                       *)
(***************************************************************************)
EXTENDS Integers, Sequences, FiniteSets, TLC

(* Bounds of the explored snapshots. *)
MaxVersion == 2
NumCommits == 2
MaxTextLen == 5

(***************************************************************************)
(* Text primitives (Python str methods used by ccverify.py)                *)
(***************************************************************************)

(* A character is a one-character string; a character outside ASCII is    *)
(* written as the string of its code point, "U+00A0".                     *)

(* The ASCII characters for which str.isspace() holds: tab, line feed,     *)
(* vertical tab, form feed, carriage return, the separators 0x1C..0x1F,    *)
(* and the blank.                                                          *)
AsciiWhitespace == {"\t", "\n", "", "\f", "\r", "", "", "", "", " "}

(* The other characters for which str.isspace() holds. *)
UnicodeWhitespace ==
  {"U+0085", "U+00A0", "U+1680", "U+2000", "U+2001", "U+2002", "U+2003", "U+2004",
   "U+2005", "U+2006", "U+2007", "U+2008", "U+2009", "U+200A", "U+2028", "U+2029",
   "U+202F", "U+205F", "U+3000"}

(* str.rstrip()/str.strip() without arguments strip the characters for     *)
(* which str.isspace() holds.                                              *)
IsSpace(c) == c \in AsciiWhitespace \cup UnicodeWhitespace

RECURSIVE ReplaceCRLF(_)
(* text.replace("\r\n", "\n"): left to right, non-overlapping. *)
ReplaceCRLF(t) ==
  IF t = <<>> THEN <<>>
  ELSE IF Len(t) >= 2 /\ t[1] = "\r" /\ t[2] = "\n"
       THEN <<"\n">> \o ReplaceCRLF(SubSeq(t, 3, Len(t)))
       ELSE <<t[1]>> \o ReplaceCRLF(Tail(t))

(* .replace("\r", "\n") *)
ReplaceCR(t) == [i \in 1..Len(t) |-> IF t[i] = "\r" THEN "\n" ELSE t[i]]

RECURSIVE SplitLines(_)
(* .split("\n"): always at least one (possibly empty) piece. *)
SplitLines(t) ==
  IF \A i \in 1..Len(t) : t[i] # "\n" THEN <<t>>
  ELSE LET k == CHOOSE i \in 1..Len(t) :
                   t[i] = "\n" /\ \A j \in 1..(i - 1) : t[j] # "\n"
       IN <<SubSeq(t, 1, k - 1)>> \o SplitLines(SubSeq(t, k + 1, Len(t)))

RECURSIVE RStrip(_)
RStrip(s) ==
  IF s # <<>> /\ IsSpace(s[Len(s)]) THEN RStrip(SubSeq(s, 1, Len(s) - 1)) ELSE s

RECURSIVE LStrip(_)
LStrip(s) == IF s # <<>> /\ IsSpace(s[1]) THEN LStrip(Tail(s)) ELSE s

Strip(s) == LStrip(RStrip(s))

RECURSIVE JoinLines(_)
(* "\n".join(lines) *)
JoinLines(lines) ==
  IF lines = <<>> THEN <<>>
  ELSE IF Len(lines) = 1 THEN lines[1]
  ELSE lines[1] \o <<"\n">> \o JoinLines(Tail(lines))

(* Faulty variant: the joined text is not stripped before "\n" is appended. *)
normalize_text_without_strip(text) ==
  LET pieces == SplitLines(ReplaceCR(ReplaceCRLF(text)))
      lines  == [i \in 1..Len(pieces) |-> RStrip(pieces[i])]
  IN JoinLines(lines) \o <<"\n">>

normalize_text(text) ==
  LET pieces == SplitLines(ReplaceCR(ReplaceCRLF(text)))
      lines  == [i \in 1..Len(pieces) |-> RStrip(pieces[i])]
  IN Strip(JoinLines(lines)) \o <<"\n">>

(* f.read() of a file opened in text mode: universal newlines turn "\r\n" *)
(* and a lone "\r" of the stored text into "\n".                          *)
read_text(t) == ReplaceCR(ReplaceCRLF(t))

(* `sub in s` for str *)
Contains(sub, s) ==
  \E i \in 0..(Len(s) - Len(sub)) : SubSeq(s, i + 1, i + Len(sub)) = sub

(* s.endswith(suffix) *)
EndsWith(s, suffix) ==
  Len(s) >= Len(suffix) /\ SubSeq(s, Len(s) - Len(suffix) + 1, Len(s)) = suffix

(***************************************************************************)
(* String constants of the program                                         *)
(***************************************************************************)
INSTALL_LINE == <<"p", "i", "p", "x", " ", "i", "n", "s", "t", "a", "l", "l", " ", "c", "u", "r", "s", "o", "r", "c", "u", "l", "t">>
LINK_PREFIX == <<"c", "u", "r", "s", "o", "r", "c", "u", "l", "t", " ", "l", "i", "n", "k", " ">>
DOT_GIT == <<".", "g", "i", "t">>

(* The canonical licence text; the real constant is the full Unlicense,    *)
(* here a two-line stand-in of the same shape (lines ended by "\n").       *)
UNLICENSE_TEXT == <<"a", "\n", "b", "\n">>

core == {"LICENSE", "README.md", "RULES.md"}
ci_paths == {".github/workflows/ccverify.yml", ".github/workflows/ccverify.yaml"}

(***************************************************************************)
(* Tag names and TAG_RE = ^v(\d+)$                                         *)
(***************************************************************************)
Digits == <<"0", "1", "2", "3", "4", "5", "6", "7", "8", "9">>

(* The decimal digits outside ASCII (Unicode category Nd), one row of the  *)
(* digits zero to nine per script.                                         *)
UnicodeDigits ==
  <<<<"U+0660", "U+0661", "U+0662", "U+0663", "U+0664", "U+0665", "U+0666", "U+0667", "U+0668", "U+0669">>,
    <<"U+06F0", "U+06F1", "U+06F2", "U+06F3", "U+06F4", "U+06F5", "U+06F6", "U+06F7", "U+06F8", "U+06F9">>,
    <<"U+07C0", "U+07C1", "U+07C2", "U+07C3", "U+07C4", "U+07C5", "U+07C6", "U+07C7", "U+07C8", "U+07C9">>,
    <<"U+0966", "U+0967", "U+0968", "U+0969", "U+096A", "U+096B", "U+096C", "U+096D", "U+096E", "U+096F">>,
    <<"U+09E6", "U+09E7", "U+09E8", "U+09E9", "U+09EA", "U+09EB", "U+09EC", "U+09ED", "U+09EE", "U+09EF">>,
    <<"U+0A66", "U+0A67", "U+0A68", "U+0A69", "U+0A6A", "U+0A6B", "U+0A6C", "U+0A6D", "U+0A6E", "U+0A6F">>,
    <<"U+0AE6", "U+0AE7", "U+0AE8", "U+0AE9", "U+0AEA", "U+0AEB", "U+0AEC", "U+0AED", "U+0AEE", "U+0AEF">>,
    <<"U+0B66", "U+0B67", "U+0B68", "U+0B69", "U+0B6A", "U+0B6B", "U+0B6C", "U+0B6D", "U+0B6E", "U+0B6F">>,
    <<"U+0BE6", "U+0BE7", "U+0BE8", "U+0BE9", "U+0BEA", "U+0BEB", "U+0BEC", "U+0BED", "U+0BEE", "U+0BEF">>,
    <<"U+0C66", "U+0C67", "U+0C68", "U+0C69", "U+0C6A", "U+0C6B", "U+0C6C", "U+0C6D", "U+0C6E", "U+0C6F">>,
    <<"U+0CE6", "U+0CE7", "U+0CE8", "U+0CE9", "U+0CEA", "U+0CEB", "U+0CEC", "U+0CED", "U+0CEE", "U+0CEF">>,
    <<"U+0D66", "U+0D67", "U+0D68", "U+0D69", "U+0D6A", "U+0D6B", "U+0D6C", "U+0D6D", "U+0D6E", "U+0D6F">>,
    <<"U+0DE6", "U+0DE7", "U+0DE8", "U+0DE9", "U+0DEA", "U+0DEB", "U+0DEC", "U+0DED", "U+0DEE", "U+0DEF">>,
    <<"U+0E50", "U+0E51", "U+0E52", "U+0E53", "U+0E54", "U+0E55", "U+0E56", "U+0E57", "U+0E58", "U+0E59">>,
    <<"U+0ED0", "U+0ED1", "U+0ED2", "U+0ED3", "U+0ED4", "U+0ED5", "U+0ED6", "U+0ED7", "U+0ED8", "U+0ED9">>,
    <<"U+0F20", "U+0F21", "U+0F22", "U+0F23", "U+0F24", "U+0F25", "U+0F26", "U+0F27", "U+0F28", "U+0F29">>,
    <<"U+1040", "U+1041", "U+1042", "U+1043", "U+1044", "U+1045", "U+1046", "U+1047", "U+1048", "U+1049">>,
    <<"U+1090", "U+1091", "U+1092", "U+1093", "U+1094", "U+1095", "U+1096", "U+1097", "U+1098", "U+1099">>,
    <<"U+17E0", "U+17E1", "U+17E2", "U+17E3", "U+17E4", "U+17E5", "U+17E6", "U+17E7", "U+17E8", "U+17E9">>,
    <<"U+1810", "U+1811", "U+1812", "U+1813", "U+1814", "U+1815", "U+1816", "U+1817", "U+1818", "U+1819">>,
    <<"U+1946", "U+1947", "U+1948", "U+1949", "U+194A", "U+194B", "U+194C", "U+194D", "U+194E", "U+194F">>,
    <<"U+19D0", "U+19D1", "U+19D2", "U+19D3", "U+19D4", "U+19D5", "U+19D6", "U+19D7", "U+19D8", "U+19D9">>,
    <<"U+1A80", "U+1A81", "U+1A82", "U+1A83", "U+1A84", "U+1A85", "U+1A86", "U+1A87", "U+1A88", "U+1A89">>,
    <<"U+1A90", "U+1A91", "U+1A92", "U+1A93", "U+1A94", "U+1A95", "U+1A96", "U+1A97", "U+1A98", "U+1A99">>,
    <<"U+1B50", "U+1B51", "U+1B52", "U+1B53", "U+1B54", "U+1B55", "U+1B56", "U+1B57", "U+1B58", "U+1B59">>,
    <<"U+1BB0", "U+1BB1", "U+1BB2", "U+1BB3", "U+1BB4", "U+1BB5", "U+1BB6", "U+1BB7", "U+1BB8", "U+1BB9">>,
    <<"U+1C40", "U+1C41", "U+1C42", "U+1C43", "U+1C44", "U+1C45", "U+1C46", "U+1C47", "U+1C48", "U+1C49">>,
    <<"U+1C50", "U+1C51", "U+1C52", "U+1C53", "U+1C54", "U+1C55", "U+1C56", "U+1C57", "U+1C58", "U+1C59">>,
    <<"U+A620", "U+A621", "U+A622", "U+A623", "U+A624", "U+A625", "U+A626", "U+A627", "U+A628", "U+A629">>,
    <<"U+A8D0", "U+A8D1", "U+A8D2", "U+A8D3", "U+A8D4", "U+A8D5", "U+A8D6", "U+A8D7", "U+A8D8", "U+A8D9">>,
    <<"U+A900", "U+A901", "U+A902", "U+A903", "U+A904", "U+A905", "U+A906", "U+A907", "U+A908", "U+A909">>,
    <<"U+A9D0", "U+A9D1", "U+A9D2", "U+A9D3", "U+A9D4", "U+A9D5", "U+A9D6", "U+A9D7", "U+A9D8", "U+A9D9">>,
    <<"U+A9F0", "U+A9F1", "U+A9F2", "U+A9F3", "U+A9F4", "U+A9F5", "U+A9F6", "U+A9F7", "U+A9F8", "U+A9F9">>,
    <<"U+AA50", "U+AA51", "U+AA52", "U+AA53", "U+AA54", "U+AA55", "U+AA56", "U+AA57", "U+AA58", "U+AA59">>,
    <<"U+ABF0", "U+ABF1", "U+ABF2", "U+ABF3", "U+ABF4", "U+ABF5", "U+ABF6", "U+ABF7", "U+ABF8", "U+ABF9">>,
    <<"U+FF10", "U+FF11", "U+FF12", "U+FF13", "U+FF14", "U+FF15", "U+FF16", "U+FF17", "U+FF18", "U+FF19">>,
    <<"U+104A0", "U+104A1", "U+104A2", "U+104A3", "U+104A4", "U+104A5", "U+104A6", "U+104A7", "U+104A8", "U+104A9">>,
    <<"U+10D30", "U+10D31", "U+10D32", "U+10D33", "U+10D34", "U+10D35", "U+10D36", "U+10D37", "U+10D38", "U+10D39">>,
    <<"U+11066", "U+11067", "U+11068", "U+11069", "U+1106A", "U+1106B", "U+1106C", "U+1106D", "U+1106E", "U+1106F">>,
    <<"U+110F0", "U+110F1", "U+110F2", "U+110F3", "U+110F4", "U+110F5", "U+110F6", "U+110F7", "U+110F8", "U+110F9">>,
    <<"U+11136", "U+11137", "U+11138", "U+11139", "U+1113A", "U+1113B", "U+1113C", "U+1113D", "U+1113E", "U+1113F">>,
    <<"U+111D0", "U+111D1", "U+111D2", "U+111D3", "U+111D4", "U+111D5", "U+111D6", "U+111D7", "U+111D8", "U+111D9">>,
    <<"U+112F0", "U+112F1", "U+112F2", "U+112F3", "U+112F4", "U+112F5", "U+112F6", "U+112F7", "U+112F8", "U+112F9">>,
    <<"U+11450", "U+11451", "U+11452", "U+11453", "U+11454", "U+11455", "U+11456", "U+11457", "U+11458", "U+11459">>,
    <<"U+114D0", "U+114D1", "U+114D2", "U+114D3", "U+114D4", "U+114D5", "U+114D6", "U+114D7", "U+114D8", "U+114D9">>,
    <<"U+11650", "U+11651", "U+11652", "U+11653", "U+11654", "U+11655", "U+11656", "U+11657", "U+11658", "U+11659">>,
    <<"U+116C0", "U+116C1", "U+116C2", "U+116C3", "U+116C4", "U+116C5", "U+116C6", "U+116C7", "U+116C8", "U+116C9">>,
    <<"U+11730", "U+11731", "U+11732", "U+11733", "U+11734", "U+11735", "U+11736", "U+11737", "U+11738", "U+11739">>,
    <<"U+118E0", "U+118E1", "U+118E2", "U+118E3", "U+118E4", "U+118E5", "U+118E6", "U+118E7", "U+118E8", "U+118E9">>,
    <<"U+11950", "U+11951", "U+11952", "U+11953", "U+11954", "U+11955", "U+11956", "U+11957", "U+11958", "U+11959">>,
    <<"U+11C50", "U+11C51", "U+11C52", "U+11C53", "U+11C54", "U+11C55", "U+11C56", "U+11C57", "U+11C58", "U+11C59">>,
    <<"U+11D50", "U+11D51", "U+11D52", "U+11D53", "U+11D54", "U+11D55", "U+11D56", "U+11D57", "U+11D58", "U+11D59">>,
    <<"U+11DA0", "U+11DA1", "U+11DA2", "U+11DA3", "U+11DA4", "U+11DA5", "U+11DA6", "U+11DA7", "U+11DA8", "U+11DA9">>,
    <<"U+16A60", "U+16A61", "U+16A62", "U+16A63", "U+16A64", "U+16A65", "U+16A66", "U+16A67", "U+16A68", "U+16A69">>,
    <<"U+16AC0", "U+16AC1", "U+16AC2", "U+16AC3", "U+16AC4", "U+16AC5", "U+16AC6", "U+16AC7", "U+16AC8", "U+16AC9">>,
    <<"U+16B50", "U+16B51", "U+16B52", "U+16B53", "U+16B54", "U+16B55", "U+16B56", "U+16B57", "U+16B58", "U+16B59">>,
    <<"U+1D7CE", "U+1D7CF", "U+1D7D0", "U+1D7D1", "U+1D7D2", "U+1D7D3", "U+1D7D4", "U+1D7D5", "U+1D7D6", "U+1D7D7">>,
    <<"U+1D7D8", "U+1D7D9", "U+1D7DA", "U+1D7DB", "U+1D7DC", "U+1D7DD", "U+1D7DE", "U+1D7DF", "U+1D7E0", "U+1D7E1">>,
    <<"U+1D7E2", "U+1D7E3", "U+1D7E4", "U+1D7E5", "U+1D7E6", "U+1D7E7", "U+1D7E8", "U+1D7E9", "U+1D7EA", "U+1D7EB">>,
    <<"U+1D7EC", "U+1D7ED", "U+1D7EE", "U+1D7EF", "U+1D7F0", "U+1D7F1", "U+1D7F2", "U+1D7F3", "U+1D7F4", "U+1D7F5">>,
    <<"U+1D7F6", "U+1D7F7", "U+1D7F8", "U+1D7F9", "U+1D7FA", "U+1D7FB", "U+1D7FC", "U+1D7FD", "U+1D7FE", "U+1D7FF">>,
    <<"U+1E140", "U+1E141", "U+1E142", "U+1E143", "U+1E144", "U+1E145", "U+1E146", "U+1E147", "U+1E148", "U+1E149">>,
    <<"U+1E2F0", "U+1E2F1", "U+1E2F2", "U+1E2F3", "U+1E2F4", "U+1E2F5", "U+1E2F6", "U+1E2F7", "U+1E2F8", "U+1E2F9">>,
    <<"U+1E950", "U+1E951", "U+1E952", "U+1E953", "U+1E954", "U+1E955", "U+1E956", "U+1E957", "U+1E958", "U+1E959">>,
    <<"U+1FBF0", "U+1FBF1", "U+1FBF2", "U+1FBF3", "U+1FBF4", "U+1FBF5", "U+1FBF6", "U+1FBF7", "U+1FBF8", "U+1FBF9">>>>

(* all decimal digits: \d of a str pattern, and the digits int() accepts *)
DigitRows == <<Digits>> \o UnicodeDigits

(* \d matches c *)
IsDigit(c) == \E r \in 1..Len(DigitRows) : \E d \in 1..10 : DigitRows[r][d] = c

(* the value of the decimal digit c *)
DigitVal(c) ==
  (CHOOSE d \in 1..10 : \E r \in 1..Len(DigitRows) : DigitRows[r][d] = c) - 1

(* The part of s that a pattern ending in "$" has to match: "$" matches at *)
(* the end of the string and just before a newline that ends the string.   *)
BeforeFinalNewline(s) ==
  IF s # <<>> /\ s[Len(s)] = "\n" THEN {s, SubSeq(s, 1, Len(s) - 1)} ELSE {s}

(* v followed by one or more decimal digits *)
IsVDigits(s) ==
  /\ Len(s) >= 2
  /\ s[1] = "v"
  /\ \A i \in 2..Len(s) : IsDigit(s[i])

(* TAG_RE.match(name) is not None *)
TAG_RE_match(name) == \E s \in BeforeFinalNewline(name) : IsVDigits(s)

(* TAG_RE.match(name).group(1) *)
TAG_RE_group1(name) ==
  Tail(CHOOSE s \in BeforeFinalNewline(name) : IsVDigits(s))

RECURSIVE ParseInt(_)
(* int(digits) for a non-empty string of decimal digits *)
ParseInt(ds) ==
  IF ds = <<>> THEN 0
  ELSE 10 * ParseInt(SubSeq(ds, 1, Len(ds) - 1)) + DigitVal(ds[Len(ds)])

(* int(TAG_RE.match(n).group(1)) *)
TagVersion(name) == ParseInt(TAG_RE_group1(name))

(* Tag names that occur in the explored repositories, in the order in which *)
(* `git tag` lists them (byte order of the names).                         *)
VName(k) == <<"v", Digits[k + 1]>>

TagNameList ==
  <<VName(0), <<"v", "0", "1">>>> \o [k \in 1..MaxVersion |-> VName(k)]
    \o <<<<"v", "e", "r", "s", "i", "o", "n", "1">>>>

Commits == 1..NumCommits

(***************************************************************************)
(* Results of calls: a normal return with a value, or a raised exception   *)
(***************************************************************************)
Return(v) == [raised |-> FALSE, exc |-> "", value |-> v]

Raise(e) == [raised |-> TRUE, exc |-> e, value |-> <<>>]

(* One error string: the message template and the values formatted in it. *)
Err(msg, files, name, nums, cause) ==
  [msg |-> msg, files |-> files, name |-> name, nums |-> nums, cause |-> cause]

(***************************************************************************)
(* run(): the git queries, answered from the repository snapshot.          *)
(*   repo.pathExists  the path is an existing directory                    *)
(*   repo.isGit       the directory is a git working copy                  *)
(*   repo.fault       a git command that fails although the repo exists    *)
(***************************************************************************)

(* subprocess.run raises before git runs when cwd does not exist. *)
NoCwd(repo) == ~repo.pathExists

(* git ls-files *)
git_ls_files(repo) ==
  IF NoCwd(repo) THEN Raise("FileNotFoundError")
  ELSE IF ~repo.isGit THEN Raise("Command failed: git ls-files")
  ELSE Return(repo.tracked)

(* git remote get-url origin, stripped *)
git_remote_get_url(repo) ==
  IF NoCwd(repo) THEN Raise("FileNotFoundError")
  ELSE IF ~repo.isGit \/ repo.origin = <<>>
       THEN Raise("Command failed: git remote get-url origin")
  ELSE Return(repo.origin[1])

(* os.listdir(path) *)
listdir(repo) ==
  IF NoCwd(repo) THEN Raise("FileNotFoundError")
  ELSE Return(repo.entries
                \cup (IF repo.license.st # "missing" THEN {"LICENSE"} ELSE {})
                \cup (IF repo.readme.st # "missing" THEN {"README.md"} ELSE {}))

(* f.startswith(".") *)
StartsWithDot(f) == Len(f) >= 1 /\ SubSeq(f, 1, 1) = "."

(***************************************************************************)
(* get_repo_name                                                           *)
(***************************************************************************)

(* re.search(r"/([^/]+?)(?:\.git)?$", origin): the leftmost "/" from which *)
(* a shortest non-empty slash-free group reaches the end of the string,    *)
(* optionally followed by ".git".  The result is group(1), or None.        *)
OriginMatchAt(url, i, j) ==
  /\ url[i] = "/"
  /\ j > i
  /\ \A k \in (i + 1)..j : url[k] # "/"
  /\ \/ j = Len(url)
     \/ SubSeq(url, j + 1, Len(url)) = DOT_GIT

OriginSearch(url) ==
  LET starts == {i \in 1..Len(url) : \E j \in 1..Len(url) : OriginMatchAt(url, i, j)}
  IN IF starts = {} THEN <<>>
     ELSE LET i == CHOOSE a \in starts : \A b \in starts : a <= b
              j == CHOOSE a \in 1..Len(url) :
                     /\ OriginMatchAt(url, i, a)
                     /\ \A b \in 1..Len(url) : OriginMatchAt(url, i, b) => a <= b
          IN <<SubSeq(url, i + 1, j)>>

get_repo_name(repo, override) ==
  IF override # <<>> /\ override[1] # <<>> THEN override[1]
  ELSE LET origin == git_remote_get_url(repo)
           m == IF origin.raised THEN <<>> ELSE OriginSearch(origin.value)
       IN IF m # <<>>
          THEN IF EndsWith(m[1], DOT_GIT)
               THEN SubSeq(m[1], 1, Len(m[1]) - Len(DOT_GIT))
               ELSE m[1]
          ELSE repo.basename

(***************************************************************************)
(* check_tracked_files                                                     *)
(***************************************************************************)

(* Python's str order on the file names that occur. *)
FileOrder ==
  <<".github/workflows/ccverify.yaml", ".github/workflows/ccverify.yml",
    "AUTHORS", "LICENSE", "NOTES.md", "README.md", "RULES.md">>

FileRank(f) == CHOOSE i \in 1..Len(FileOrder) : FileOrder[i] = f

RECURSIVE sorted_files(_)
(* sorted(names) *)
sorted_files(S) ==
  IF S = {} THEN <<>>
  ELSE LET m == CHOOSE f \in S : \A g \in S : FileRank(f) <= FileRank(g)
       IN <<m>> \o sorted_files(S \ {m})

(* Faulty variant: the CI workflow paths are not exempt from `extra`. *)
check_tracked_files_extra_keeps_ci(repo) ==
  LET ls == git_ls_files(repo)
      ld == listdir(repo)
  IN IF ls.raised /\ ld.raised THEN Raise(ld.exc)
     ELSE
       LET tracked == IF ~ls.raised THEN ls.value
                      ELSE {f \in ld.value : ~StartsWithDot(f)}
           missing == core \ tracked
           has_ci  == (tracked \cap ci_paths) # {}
           extra   == tracked \ core
           e1 == IF missing # {}
                 THEN <<Err("Missing required files", sorted_files(missing), <<>>, <<>>, "")>>
                 ELSE <<>>
           e2 == IF ~has_ci
                 THEN <<Err("Missing required CI workflow", <<>>, <<>>, <<>>, "")>>
                 ELSE <<>>
           e3 == IF extra # {}
                 THEN <<Err("Extra tracked files not allowed", sorted_files(extra), <<>>, <<>>, "")>>
                 ELSE <<>>
       IN Return(e1 \o e2 \o e3)

check_tracked_files(repo) ==
  LET ls == git_ls_files(repo)
      ld == listdir(repo)
  IN IF ls.raised /\ ld.raised THEN Raise(ld.exc)
     ELSE
       LET tracked == IF ~ls.raised THEN ls.value
                      ELSE {f \in ld.value : ~StartsWithDot(f)}
           missing == core \ tracked
           has_ci  == (tracked \cap ci_paths) # {}
           extra   == (tracked \ core) \ ci_paths
           e1 == IF missing # {}
                 THEN <<Err("Missing required files", sorted_files(missing), <<>>, <<>>, "")>>
                 ELSE <<>>
           e2 == IF ~has_ci
                 THEN <<Err("Missing required CI workflow", <<>>, <<>>, <<>>, "")>>
                 ELSE <<>>
           e3 == IF extra # {}
                 THEN <<Err("Extra tracked files not allowed", sorted_files(extra), <<>>, <<>>, "")>>
                 ELSE <<>>
       IN Return(e1 \o e2 \o e3)

(***************************************************************************)
(* check_license, check_readme_install                                     *)
(*   file.st = "missing"      os.path.isfile is false                      *)
(*   file.st = "undecodable"  open()/read() raises (bad UTF-8, no access)  *)
(*   file.st = "text"         file.text is the decoded content             *)
(***************************************************************************)
(* Faulty variant: the contents are compared without normalize_text. *)
check_license_raw_compare(repo) ==
  IF NoCwd(repo) \/ repo.license.st = "missing"
  THEN Return(<<Err("LICENSE file missing", <<>>, <<>>, <<>>, "")>>)
  ELSE IF repo.license.st = "undecodable" THEN Raise("UnicodeDecodeError")
  ELSE IF repo.license.text # UNLICENSE_TEXT
       THEN Return(<<Err("LICENSE is not the Unlicense", <<>>, <<>>, <<>>, "")>>)
       ELSE Return(<<>>)

check_license(repo) ==
  IF NoCwd(repo) \/ repo.license.st = "missing"
  THEN Return(<<Err("LICENSE file missing", <<>>, <<>>, <<>>, "")>>)
  ELSE IF repo.license.st = "undecodable" THEN Raise("UnicodeDecodeError")
  ELSE IF normalize_text(read_text(repo.license.text)) # normalize_text(UNLICENSE_TEXT)
       THEN Return(<<Err("LICENSE is not the Unlicense", <<>>, <<>>, <<>>, "")>>)
       ELSE Return(<<>>)

check_readme_install(repo, repo_name) ==
  IF NoCwd(repo) \/ repo.readme.st = "missing"
  THEN Return(<<Err("README.md file missing", <<>>, <<>>, <<>>, "")>>)
  ELSE IF repo.readme.st = "undecodable" THEN Raise("UnicodeDecodeError")
  ELSE
    LET readme == read_text(repo.readme.text)
        expected_link == LINK_PREFIX \o repo_name
        e1 == IF ~Contains(INSTALL_LINE, readme)
              THEN <<Err("README.md must include installation line", <<>>, <<>>, <<>>, "")>>
              ELSE <<>>
        e2 == IF ~Contains(expected_link, readme)
              THEN <<Err("README.md must include link example", <<>>, repo_name, <<>>, "")>>
              ELSE <<>>
    IN Return(e1 \o e2)

(***************************************************************************)
(* get_main_commits, get_tags                                              *)
(*   repo.refs[i]  what the i-th name of TagNameList resolves to:          *)
(*                 -1 the tag does not exist, 0 `git rev-list -n 1` prints *)
(*                 nothing (the tag names a tree or blob), c > 0 commit c  *)
(***************************************************************************)
get_main_commits(repo) ==
  IF NoCwd(repo) THEN Raise("FileNotFoundError")
  ELSE IF ~repo.isGit \/ ~repo.mainExists
       THEN Raise("Command failed: git rev-parse --verify main")
  ELSE IF repo.fault = "rev-list main" THEN Raise("Command failed: git rev-list main")
  ELSE Return(repo.mainCommits)

RECURSIVE git_tag_from(_, _)
(* the output lines of `git tag`, as indices into TagNameList *)
git_tag_from(repo, i) ==
  IF i > Len(TagNameList) THEN <<>>
  ELSE (IF repo.refs[i] # -1 THEN <<i>> ELSE <<>>) \o git_tag_from(repo, i + 1)

RECURSIVE resolved_tags(_, _)
(* the (name, sha) pairs appended by the loop of get_tags *)
resolved_tags(repo, names) ==
  IF names = <<>> THEN <<>>
  ELSE (IF repo.refs[names[1]] # 0
        THEN <<[name |-> TagNameList[names[1]], sha |-> repo.refs[names[1]]]>>
        ELSE <<>>) \o resolved_tags(repo, Tail(names))

get_tags(repo) ==
  IF NoCwd(repo) THEN Raise("FileNotFoundError")
  ELSE IF ~repo.isGit \/ repo.fault = "tag" THEN Raise("Command failed: git tag")
  ELSE LET names == git_tag_from(repo, 1)
       IN IF names # <<>> /\ repo.fault = "rev-list -n 1"
          THEN Raise("Command failed: git rev-list -n 1")
          ELSE Return(resolved_tags(repo, names))

(***************************************************************************)
(* check_tags                                                              *)
(***************************************************************************)
RECURSIVE invalid_name_errors(_)
invalid_name_errors(tag_names) ==
  IF tag_names = <<>> THEN <<>>
  ELSE (IF ~TAG_RE_match(tag_names[1])
        THEN <<Err("Invalid tag name", <<>>, tag_names[1], <<>>, "")>>
        ELSE <<>>) \o invalid_name_errors(Tail(tag_names))

tag_commits_of(tags) == {tags[i].sha : i \in 1..Len(tags)}

off_main_errors(tag_commits, main_set) ==
  IF tag_commits \ main_set # {}
  THEN <<Err("All vN tags must point to commits on main", <<>>, <<>>, <<>>, "")>>
  ELSE <<>>

untagged_errors(tag_commits, main_set) ==
  LET untagged == main_set \ tag_commits
  IN IF untagged # {}
     THEN <<Err("Main has N untagged commits", <<>>, <<>>, <<Cardinality(untagged)>>, "")>>
     ELSE <<>>

RECURSIVE insert_sorted(_, _)
insert_sorted(x, s) ==
  IF s = <<>> THEN <<x>>
  ELSE IF x <= s[1] THEN <<x>> \o s
  ELSE <<s[1]>> \o insert_sorted(x, Tail(s))

RECURSIVE sorted_ints(_)
(* sorted(xs) for a list of integers *)
sorted_ints(xs) ==
  IF xs = <<>> THEN <<>> ELSE insert_sorted(xs[1], sorted_ints(Tail(xs)))

RECURSIVE matching_versions(_)
(* [int(TAG_RE.match(n).group(1)) for n in tag_names if TAG_RE.match(n)] *)
matching_versions(tag_names) ==
  IF tag_names = <<>> THEN <<>>
  ELSE (IF TAG_RE_match(tag_names[1]) THEN <<TagVersion(tag_names[1])>> ELSE <<>>)
         \o matching_versions(Tail(tag_names))

(* range(0, n) *)
range0(n) == [i \in 1..n |-> i - 1]

(* Faulty variant: the expected range starts at the smallest version. *)
contiguity_errors_from_min(tag_names) ==
  LET versions == sorted_ints(matching_versions(tag_names))
  IN IF versions # <<>>
     THEN LET lo == versions[1]
              hi == versions[Len(versions)]
              expected == [i \in 1..(hi - lo + 1) |-> lo + i - 1]
          IN IF versions # expected
             THEN <<Err("vN tags must be contiguous from v0", <<>>, <<>>, versions, "")>>
             ELSE <<>>
     ELSE <<>>

contiguity_errors(tag_names) ==
  LET versions == sorted_ints(matching_versions(tag_names))
  IN IF versions # <<>>
     THEN LET expected == range0(versions[Len(versions)] + 1)
          IN IF versions # expected
             THEN <<Err("vN tags must be contiguous from v0", <<>>, <<>>, versions, "")>>
             ELSE <<>>
     ELSE <<>>

RECURSIVE valid_only(_)
valid_only(tags) ==
  IF tags = <<>> THEN <<>>
  ELSE (IF TAG_RE_match(tags[1].name) THEN <<tags[1]>> ELSE <<>>) \o valid_only(Tail(tags))

(* Faulty variant: no early return when there are no tags. *)
check_tags_no_early_return(repo, main_commits) ==
  LET t == get_tags(repo)
  IN IF t.raised THEN t
     ELSE LET tags == t.value
              tag_names == [i \in 1..Len(tags) |-> tags[i].name]
              tag_commits == tag_commits_of(tags)
          IN Return(invalid_name_errors(tag_names)
                      \o off_main_errors(tag_commits, main_commits)
                      \o untagged_errors(tag_commits, main_commits)
                      \o contiguity_errors(tag_names))

(* Faulty variant: only vN-named tags count as tagging a commit. *)
check_tags_valid_commits_only(repo, main_commits) ==
  LET t == get_tags(repo)
  IN IF t.raised THEN t
     ELSE IF t.value = <<>> THEN Return(<<>>)
     ELSE LET tags == t.value
              tag_names == [i \in 1..Len(tags) |-> tags[i].name]
              tag_commits == tag_commits_of(valid_only(tags))
          IN Return(invalid_name_errors(tag_names)
                      \o off_main_errors(tag_commits, main_commits)
                      \o untagged_errors(tag_commits, main_commits)
                      \o contiguity_errors(tag_names))

check_tags(repo, main_commits) ==
  LET t == get_tags(repo)
  IN IF t.raised THEN t
     ELSE IF t.value = <<>> THEN Return(<<>>)
     ELSE LET tags == t.value
              tag_names == [i \in 1..Len(tags) |-> tags[i].name]
              tag_commits == tag_commits_of(tags)
          IN Return(invalid_name_errors(tag_names)
                      \o off_main_errors(tag_commits, main_commits)
                      \o untagged_errors(tag_commits, main_commits)
                      \o contiguity_errors(tag_names))

(***************************************************************************)
(* verify_repo, main                                                       *)
(***************************************************************************)
CheckResult(errors) == [ok |-> errors = <<>>, errors |-> errors]

(* Faulty variant: the git calls are not wrapped in try/except. *)
git_checks_without_except(repo) ==
  LET mc == get_main_commits(repo)
  IN IF mc.raised THEN mc ELSE check_tags(repo, mc.value)

(* the try/except block of verify_repo: the errors it appends *)
git_checks(repo) ==
  LET mc == get_main_commits(repo)
      ct == IF mc.raised THEN mc ELSE check_tags(repo, mc.value)
  IN IF ct.raised
     THEN Return(<<Err("Git checks failed", <<>>, <<>>, <<>>, ct.exc)>>)
     ELSE ct

(* Faulty variant: the license checker runs before the tracked-file checker. *)
verify_repo_license_first(repo, name_override) ==
  LET repo_name == get_repo_name(repo, name_override)
      r1 == check_tracked_files(repo)
      r2 == check_license(repo)
      r3 == check_readme_install(repo, repo_name)
      r4 == git_checks(repo)
  IN IF r2.raised THEN r2
     ELSE IF r1.raised THEN r1
     ELSE IF r3.raised THEN r3
     ELSE IF r4.raised THEN r4
     ELSE Return(CheckResult(r2.value \o r1.value \o r3.value \o r4.value))

verify_repo(repo, name_override) ==
  LET repo_name == get_repo_name(repo, name_override)
      r1 == check_tracked_files(repo)
      r2 == check_license(repo)
      r3 == check_readme_install(repo, repo_name)
      r4 == git_checks(repo)
  IN IF r1.raised THEN r1
     ELSE IF r2.raised THEN r2
     ELSE IF r3.raised THEN r3
     ELSE IF r4.raised THEN r4
     ELSE Return(CheckResult(r1.value \o r2.value \o r3.value \o r4.value))

(***************************************************************************)
(* main: the argument parser (argparse, options -h/--help and --name, one  *)
(* optional positional path) and the report                                *)
(***************************************************************************)
OPT_H == <<"-", "h">>
OPT_HELP == <<"-", "-", "h", "e", "l", "p">>
OPT_NAME == <<"-", "-", "n", "a", "m", "e">>
DASH_DASH == <<"-", "-">>

(* the option strings of the parser, in the order they were added *)
option_strings == <<OPT_H, OPT_HELP, OPT_NAME>>

(* s.startswith(prefix) *)
StartsWith(s, prefix) == Len(s) >= Len(prefix) /\ SubSeq(s, 1, Len(prefix)) = prefix

(* position of the first "=" of s, 0 when there is none *)
EqPos(s) ==
  IF \A i \in 1..Len(s) : s[i] # "=" THEN 0
  ELSE CHOOSE i \in 1..Len(s) : s[i] = "=" /\ \A j \in 1..(i - 1) : s[j] # "="

(* the parser's _negative_number_matcher, ^-\d+$|^-\d*\.\d+$ *)
IsNegativeNumber(arg) ==
  \E s \in BeforeFinalNewline(arg) :
    /\ Len(s) >= 2
    /\ s[1] = "-"
    /\ \/ \A i \in 2..Len(s) : IsDigit(s[i])
       \/ \E p \in 2..(Len(s) - 1) :
            /\ s[p] = "."
            /\ \A i \in (2..Len(s)) \ {p} : IsDigit(s[i])

(* what an argument is for the parser *)
Positional == [kind |-> "A", option |-> <<>>, explicit |-> <<>>]

Optional(option, explicit) == [kind |-> "O", option |-> option, explicit |-> explicit]

UnknownOption == [kind |-> "O", option |-> <<>>, explicit |-> <<>>]

Ambiguous == [kind |-> "ambiguous", option |-> <<>>, explicit |-> <<>>]

(* _get_option_tuples: the options that arg abbreviates, each with the     *)
(* explicit argument that arg carries (a sequence of zero or one strings)  *)
get_option_tuples(arg) ==
  IF StartsWith(arg, DASH_DASH)
  THEN LET e == EqPos(arg)
           prefix == IF e = 0 THEN arg ELSE SubSeq(arg, 1, e - 1)
           explicit == IF e = 0 THEN <<>> ELSE <<SubSeq(arg, e + 1, Len(arg))>>
       IN {Optional(option_strings[i], explicit) :
             i \in {j \in 1..Len(option_strings) : StartsWith(option_strings[j], prefix)}}
  ELSE {Optional(option_strings[i],
                 IF option_strings[i] = SubSeq(arg, 1, 2)
                 THEN <<SubSeq(arg, 3, Len(arg))>> ELSE <<>>) :
          i \in {j \in 1..Len(option_strings) :
                   \/ option_strings[j] = SubSeq(arg, 1, 2)
                   \/ StartsWith(option_strings[j], arg)}}

(* _parse_optional *)
parse_optional(arg) ==
  IF arg = <<>> THEN Positional
  ELSE IF arg[1] # "-" THEN Positional
  ELSE IF \E i \in 1..Len(option_strings) : option_strings[i] = arg
  THEN Optional(arg, <<>>)
  ELSE IF Len(arg) = 1 THEN Positional
  ELSE IF /\ EqPos(arg) > 0
          /\ \E i \in 1..Len(option_strings) :
               option_strings[i] = SubSeq(arg, 1, EqPos(arg) - 1)
  THEN Optional(SubSeq(arg, 1, EqPos(arg) - 1), <<SubSeq(arg, EqPos(arg) + 1, Len(arg))>>)
  ELSE IF Cardinality(get_option_tuples(arg)) > 1 THEN Ambiguous
  ELSE IF Cardinality(get_option_tuples(arg)) = 1
  THEN CHOOSE t \in get_option_tuples(arg) : TRUE
  ELSE IF IsNegativeNumber(arg) THEN Positional
  ELSE IF \E i \in 1..Len(arg) : arg[i] = " " THEN Positional
  ELSE UnknownOption

(* the arguments before the first "--" *)
BeforeDashDash(argv) ==
  IF \A i \in 1..Len(argv) : argv[i] # DASH_DASH THEN argv
  ELSE SubSeq(argv, 1, (CHOOSE i \in 1..Len(argv) :
                          argv[i] = DASH_DASH /\ \A j \in 1..(i - 1) : argv[j] # DASH_DASH) - 1)

(* results of parse_args: the namespace, the help exit, or an error exit; *)
(* the error message is msg, the strings of detail (joined by blanks, or  *)
(* one string in quotes), and tail                                        *)
Namespace(path, name_override) ==
  [status |-> "ok", path |-> path, name_override |-> name_override,
   msg |-> "", detail |-> <<>>, tail |-> ""]

HelpExit ==
  [status |-> "help", path |-> <<>>, name_override |-> <<>>, msg |-> "", detail |-> <<>>,
   tail |-> ""]

ParserError(msg, detail, tail) ==
  [status |-> "error", path |-> <<>>, name_override |-> <<>>, msg |-> msg,
   detail |-> detail, tail |-> tail]

IgnoredExplicit(e) ==
  ParserError("ccverify: error: argument -h/--help: ignored explicit argument ", <<e>>, "")

RECURSIVE help_flags(_)
(* -h with the explicit argument e.  -h takes no argument, so e is read as *)
(* more single-dash flags: a leading "h" is -h again with the rest of e,   *)
(* and when nothing is left the help is printed; any other e is an error.  *)
help_flags(e) ==
  IF e # <<>> /\ e[1] = "h"
  THEN IF Len(e) = 1 THEN HelpExit ELSE help_flags(Tail(e))
  ELSE IgnoredExplicit(e)

(* _get_values for the one string given to --name: the string itself; but *)
(* a "--" is removed from the strings first, and with no string left the   *)
(* value is the empty list (the empty sequence, which get_repo_name takes  *)
(* for no override just as it takes the empty string).                     *)
get_values(arg) == IF arg = DASH_DASH THEN <<>> ELSE arg

(* the end of parsing: the unrecognized arguments are an error *)
finish(path, name, extras) ==
  IF extras # <<>>
  THEN ParserError("ccverify: error: unrecognized arguments: ", extras, "")
  ELSE Namespace(IF path = <<>> THEN <<".">> ELSE path[1], name)

RECURSIVE consume(_, _, _, _)
(* The parsing loop over the arguments left, with path and name = what was *)
(* stored so far (zero or one string) and extras = the arguments nothing   *)
(* consumed.  An option is handled when the loop reaches it.  The path is  *)
(* matched once, against -*A?-* where A is a positional argument and - is  *)
(* the first "--"; every argument after the first "--" is positional.      *)
consume(args, path, name, extras) ==
  IF args = <<>> THEN finish(path, name, extras)
  ELSE LET a == Head(args)
           p == parse_optional(a)
       IN IF a = DASH_DASH
          THEN IF path # <<>> THEN finish(path, name, extras \o args)
               ELSE IF Len(args) = 1 THEN finish(path, name, extras)
               ELSE finish(<<args[2]>>, name, extras \o SubSeq(args, 3, Len(args)))
          ELSE IF p.kind = "A"
          THEN IF path # <<>>
               THEN consume(Tail(args), path, name, Append(extras, a))
               ELSE IF Len(args) >= 2 /\ args[2] = DASH_DASH
               THEN finish(<<a>>, name, extras \o SubSeq(args, 3, Len(args)))
               ELSE consume(Tail(args), <<a>>, name, extras)
          ELSE IF p.option = <<>>
          THEN consume(Tail(args), path, name, Append(extras, a))
          ELSE IF p.option \in {OPT_H, OPT_HELP}
          THEN IF p.explicit = <<>> THEN HelpExit
               ELSE IF p.option = OPT_H THEN help_flags(p.explicit[1])
               ELSE IgnoredExplicit(p.explicit[1])
          ELSE IF p.explicit # <<>>
          THEN consume(Tail(args), path, <<get_values(p.explicit[1])>>, extras)
          ELSE IF /\ Len(args) >= 2
                  /\ args[2] # DASH_DASH
                  /\ parse_optional(args[2]).kind = "A"
          THEN consume(Tail(Tail(args)), path, <<args[2]>>, extras)
          ELSE ParserError("ccverify: error: argument --name: expected one argument",
                           <<>>, "")

(* parser.parse_args(argv): an ambiguous abbreviation is an error before   *)
(* any option is handled                                                   *)
parse_args(argv) ==
  LET scan == BeforeDashDash(argv)
      amb == {i \in 1..Len(scan) : parse_optional(scan[i]).kind = "ambiguous"}
  IN IF amb # {}
     THEN ParserError("ccverify: error: ambiguous option: ",
                      <<scan[CHOOSE i \in amb : \A j \in amb : i <= j]>>,
                      " could match --help, --name")
     ELSE consume(argv, <<>>, <<>>, <<>>)

(* A printed line: the fixed text, and the error formatted after "- ". *)
Line(text, err) == [text |-> text, err |-> err]

(* A line of the parser on stderr: the fixed text, the strings quoted, and *)
(* the fixed text after them.                                              *)
ErrLine(text, detail, tail) == [text |-> text, detail |-> detail, tail |-> tail]

(***************************************************************************)
(* The parser's messages (argparse.HelpFormatter), laid out for a terminal *)
(* of `columns` columns (shutil.get_terminal_size().columns)               *)
(***************************************************************************)
Min(a, b) == IF a <= b THEN a ELSE b

Max(a, b) == IF a >= b THEN a ELSE b

RECURSIVE Spaces(_)
(* " " * n *)
Spaces(n) == IF n <= 0 THEN "" ELSE " " \o Spaces(n - 1)

RECURSIVE JoinWords(_)
(* " ".join(words) *)
JoinWords(words) ==
  IF words = <<>> THEN ""
  ELSE IF Len(words) = 1 THEN words[1]
  ELSE words[1] \o " " \o JoinWords(Tail(words))

PROG == "ccverify"
USAGE_PREFIX == "usage: "
opt_parts == <<"[-h]", "[--name NAME_OVERRIDE]">>
pos_parts == <<"[path]">>
DESCRIPTION ==
  <<"Verify", "a", "CursorCult", "rules", "repository", "follows", "the", "required",
    "format.">>
PATH_HELP ==
  <<"Path", "to", "a", "local", "clone", "of", "a", "rules", "repo", "(default:",
    "current", "directory).">>
H_HELP == <<"show", "this", "help", "message", "and", "exit">>
NAME_HELP == <<"Override", "repo", "name", "for", "README", "link", "checks.">>

(* the longest invocation, "--name NAME_OVERRIDE", plus the section indent *)
ACTION_MAX_LENGTH == 22

formatter_width(columns) == columns - 2

max_help_position(columns) == Min(24, Max(formatter_width(columns) - 20, 4))

RECURSIVE wrap_from(_, _, _, _)
wrap_from(words, width, lines, line) ==
  IF words = <<>> THEN IF line = "" THEN lines ELSE Append(lines, line)
  ELSE IF line = "" THEN wrap_from(Tail(words), width, lines, words[1])
  ELSE IF Len(line) + 1 + Len(words[1]) <= width
  THEN wrap_from(Tail(words), width, lines, line \o " " \o words[1])
  ELSE wrap_from(words, width, Append(lines, line), "")

(* textwrap.wrap(" ".join(words), width) for words no longer than width *)
wrap(words, width) == wrap_from(words, width, <<>>, "")

RECURSIVE get_lines_from(_, _, _, _, _, _)
get_lines_from(parts, indent_len, text_width, lines, line, line_len) ==
  IF parts = <<>>
  THEN IF line # <<>> THEN Append(lines, JoinWords(line)) ELSE lines
  ELSE IF line_len + 1 + Len(parts[1]) > text_width /\ line # <<>>
  THEN get_lines_from(Tail(parts), indent_len, text_width,
                      Append(lines, JoinWords(line)), <<parts[1]>>,
                      indent_len - 1 + Len(parts[1]) + 1)
  ELSE get_lines_from(Tail(parts), indent_len, text_width, lines,
                      Append(line, parts[1]), line_len + Len(parts[1]) + 1)

(* get_lines of _format_usage: the parts filled into lines of text_width;  *)
(* with a prefix the first line follows the prefix, every other line is    *)
(* indented                                                                *)
get_lines(parts, indent_len, text_width, with_prefix) ==
  LET ls == get_lines_from(parts, indent_len, text_width, <<>>, <<>>,
                           IF with_prefix THEN Len(USAGE_PREFIX) - 1 ELSE indent_len - 1)
  IN [i \in 1..Len(ls) |->
        IF with_prefix /\ i = 1 THEN ls[i] ELSE Spaces(indent_len) \o ls[i]]

(* the lines of parser.format_usage() *)
format_usage(columns) ==
  LET text_width == formatter_width(columns)
      usage == JoinWords(<<PROG>> \o opt_parts \o pos_parts)
      short == Len(USAGE_PREFIX) + Len(PROG) + 1
      indented == get_lines(<<PROG>> \o opt_parts, short, text_width, TRUE)
                    \o get_lines(pos_parts, short, text_width, FALSE)
      together == get_lines(opt_parts \o pos_parts, Len(USAGE_PREFIX), text_width, FALSE)
      apart == get_lines(opt_parts, Len(USAGE_PREFIX), text_width, FALSE)
                 \o get_lines(pos_parts, Len(USAGE_PREFIX), text_width, FALSE)
      lines == IF Len(USAGE_PREFIX) + Len(usage) <= text_width THEN <<usage>>
               ELSE IF 4 * (Len(USAGE_PREFIX) + Len(PROG)) <= 3 * text_width THEN indented
               ELSE <<PROG>> \o (IF Len(together) > 1 THEN apart ELSE together)
  IN [i \in 1..Len(lines) |-> IF i = 1 THEN USAGE_PREFIX \o lines[i] ELSE lines[i]]

(* _format_action: the invocation and the wrapped help of one argument *)
format_action(header, help, columns) ==
  LET help_position == Min(ACTION_MAX_LENGTH + 2, max_help_position(columns))
      help_width == Max(formatter_width(columns) - help_position, 11)
      action_width == help_position - 2 - 2
      help_lines == wrap(help, help_width)
  IN IF Len(header) <= action_width
     THEN [i \in 1..Len(help_lines) |->
             IF i = 1
             THEN "  " \o header \o Spaces(action_width - Len(header)) \o "  " \o help_lines[1]
             ELSE Spaces(help_position) \o help_lines[i]]
     ELSE <<"  " \o header>>
            \o [i \in 1..Len(help_lines) |-> Spaces(help_position) \o help_lines[i]]

(* the lines of parser.format_help() *)
format_help(columns) ==
  format_usage(columns)
    \o <<"">> \o wrap(DESCRIPTION, Max(formatter_width(columns), 11))
    \o <<"", "positional arguments:">> \o format_action("path", PATH_HELP, columns)
    \o <<"", "options:">> \o format_action("-h, --help", H_HELP, columns)
    \o format_action("--name NAME_OVERRIDE", NAME_HELP, columns)

(* what main does when parse_args exits: help on stdout and exit status 0, *)
(* or usage and the error on stderr and exit status 2                      *)
parser_exit(args, columns) ==
  IF args.status = "help"
  THEN [ret |-> Raise("SystemExit(0)"),
        out |-> [i \in 1..Len(format_help(columns)) |-> Line(format_help(columns)[i], <<>>)],
        err |-> <<>>]
  ELSE [ret |-> Raise("SystemExit(2)"), out |-> <<>>,
        err |-> [i \in 1..Len(format_usage(columns)) |->
                   ErrLine(format_usage(columns)[i], <<>>, "")]
                  \o <<ErrLine(args.msg, args.detail, args.tail)>>]

(***************************************************************************)
(* os.path.abspath and os.path.basename; a directory is the sequence of    *)
(* the names from the root down to it                                      *)
(***************************************************************************)
RECURSIVE SplitPath(_)
(* path.split("/") *)
SplitPath(p) ==
  IF \A i \in 1..Len(p) : p[i] # "/" THEN <<p>>
  ELSE LET k == CHOOSE i \in 1..Len(p) : p[i] = "/" /\ \A j \in 1..(i - 1) : p[j] # "/"
       IN <<SubSeq(p, 1, k - 1)>> \o SplitPath(SubSeq(p, k + 1, Len(p)))

RECURSIVE normpath_from(_, _)
(* normpath: empty names and "." are dropped, ".." drops the name before   *)
(* it, and at the root nothing                                             *)
normpath_from(dir, comps) ==
  IF comps = <<>> THEN dir
  ELSE IF Head(comps) = <<>> \/ Head(comps) = <<".">>
  THEN normpath_from(dir, Tail(comps))
  ELSE IF Head(comps) = <<".", ".">>
  THEN normpath_from(IF dir = <<>> THEN <<>> ELSE SubSeq(dir, 1, Len(dir) - 1), Tail(comps))
  ELSE normpath_from(Append(dir, Head(comps)), Tail(comps))

(* os.path.abspath(path) in the working directory cwd *)
abspath(cwd, path) ==
  normpath_from(IF path # <<>> /\ path[1] = "/" THEN <<>> ELSE cwd, SplitPath(path))

(* os.path.basename of an absolute normalized path *)
basename(dir) == IF dir = <<>> THEN <<>> ELSE dir[Len(dir)]

(***************************************************************************)
(* main(argv) in the environment env = [cwd, columns]; repo is what the    *)
(* path argument names, so its directory name is that of the absolute path *)
(***************************************************************************)

(* Faulty variant: the INVALID branch returns 0. *)
main_always_zero(repo, env, argv) ==
  LET args == parse_args(argv)
      target == [repo EXCEPT !.basename = basename(abspath(env.cwd, args.path))]
      result == verify_repo(target, args.name_override)
  IN IF args.status # "ok" THEN parser_exit(args, env.columns)
     ELSE IF result.raised THEN [ret |-> result, out |-> <<>>, err |-> <<>>]
     ELSE IF result.value.ok
     THEN [ret |-> Return(0), out |-> <<Line("OK: rules repo is valid.", <<>>)>>,
           err |-> <<>>]
     ELSE [ret |-> Return(0),
           out |-> <<Line("INVALID: rules repo failed validation:", <<>>)>>
                     \o [i \in 1..Len(result.value.errors) |->
                           Line("- ", <<result.value.errors[i]>>)],
           err |-> <<>>]

(* the result is [ret |-> exit code or exception, out |-> lines printed on *)
(* stdout, err |-> lines printed on stderr]                                *)
main(repo, env, argv) ==
  LET args == parse_args(argv)
      target == [repo EXCEPT !.basename = basename(abspath(env.cwd, args.path))]
      result == verify_repo(target, args.name_override)
  IN IF args.status # "ok" THEN parser_exit(args, env.columns)
     ELSE IF result.raised THEN [ret |-> result, out |-> <<>>, err |-> <<>>]
     ELSE IF result.value.ok
     THEN [ret |-> Return(0), out |-> <<Line("OK: rules repo is valid.", <<>>)>>,
           err |-> <<>>]
     ELSE [ret |-> Return(1),
           out |-> <<Line("INVALID: rules repo failed validation:", <<>>)>>
                     \o [i \in 1..Len(result.value.errors) |->
                           Line("- ", <<result.value.errors[i]>>)],
           err |-> <<>>]

(***************************************************************************)
(* Repository snapshots and arguments explored                             *)
(***************************************************************************)
NameUNO == <<"U", "N", "O">>
NameTDD == <<"T", "D", "D">>
NameWork == <<"w", "o", "r", "k">>

UrlGit == <<"h", "t", "t", "p", "s", ":", "/", "/", "g", "i", "t", "h", "u", "b", ".", "c", "o", "m", "/", "C", "u", "r", "s", "o", "r", "C", "u", "l", "t", "/", "U", "N", "O", ".", "g", "i", "t">>
UrlPlain == <<"h", "t", "t", "p", "s", ":", "/", "/", "g", "i", "t", "h", "u", "b", ".", "c", "o", "m", "/", "C", "u", "r", "s", "o", "r", "C", "u", "l", "t", "/", "T", "D", "D">>
UrlSlash == <<"h", "t", "t", "p", "s", ":", "/", "/", "g", "i", "t", "h", "u", "b", ".", "c", "o", "m", "/", "C", "u", "r", "s", "o", "r", "C", "u", "l", "t", "/", "U", "N", "O", "/">>
UrlLocal == <<"U", "N", "O", ".", "g", "i", "t">>
UrlDouble == <<"/", "s", "r", "v", "/", "U", "N", "O", ".", "g", "i", "t", ".", "g", "i", "t">>

ReadmeBoth == <<"p", "i", "p", "x", " ", "i", "n", "s", "t", "a", "l", "l", " ", "c", "u", "r", "s", "o", "r", "c", "u", "l", "t", "\n", "c", "u", "r", "s", "o", "r", "c", "u", "l", "t", " ", "l", "i", "n", "k", " ", "U", "N", "O", "\n">>
ReadmeOverlap == <<"p", "i", "p", "x", " ", "i", "n", "s", "t", "a", "l", "l", " ", "c", "u", "r", "s", "o", "r", "c", "u", "l", "t", " ", "l", "i", "n", "k", " ", "U", "N", "O">>
ReadmeInstallOnly == <<"p", "i", "p", "x", " ", "i", "n", "s", "t", "a", "l", "l", " ", "c", "u", "r", "s", "o", "r", "c", "u", "l", "t", "\n">>
ReadmeLinkOnly == <<"c", "u", "r", "s", "o", "r", "c", "u", "l", "t", " ", "l", "i", "n", "k", " ", "U", "N", "O", "\n">>
ReadmeOtherName == <<"p", "i", "p", "x", " ", "i", "n", "s", "t", "a", "l", "l", " ", "c", "u", "r", "s", "o", "r", "c", "u", "l", "t", "\n", "c", "u", "r", "s", "o", "r", "c", "u", "l", "t", " ", "l", "i", "n", "k", " ", "T", "D", "D", "\n">>
ReadmeCRLF ==
  INSTALL_LINE \o <<"\r", "\n">> \o LINK_PREFIX \o NameUNO \o <<"\r", "\n">>
ReadmeNeither == <<"#", " ", "U", "N", "O", "\n">>

TextFile(t) == [st |-> "text", text |-> t]

MissingFile == [st |-> "missing", text |-> <<>>]

UndecodableFile == [st |-> "undecodable", text |-> <<>>]

LicenseTexts ==
  { UNLICENSE_TEXT,
    <<"a", "\r", "\n", "b", "\r", "\n">>,
    <<"a", "\r", "b">>,
    <<"a", " ", "\t", "\n", "b">>,
    <<"a", "", "\n", "b", "\n">>,
    <<"U+00A0", "a", "\n", "b", "U+2028">>,
    <<"\n", " ", "a", "\n", "b", "\n", "\n">>,
    <<"a", "\n", "\n", "b", "\n">>,
    <<"a", "\n", " ", "b", "\n">>,
    <<"a", "b", "\n">>,
    <<>> }

LicenseFiles == {MissingFile, UndecodableFile} \cup {TextFile(t) : t \in LicenseTexts}

ReadmeFiles ==
  {MissingFile, UndecodableFile}
    \cup {TextFile(t) : t \in {ReadmeBoth, ReadmeCRLF, ReadmeOverlap, ReadmeInstallOnly,
                               ReadmeLinkOnly, ReadmeOtherName, ReadmeNeither}}

Origins == {<<>>, <<UrlGit>>, <<UrlPlain>>, <<UrlSlash>>, <<UrlLocal>>, <<UrlDouble>>}

Overrides == {<<>>, <<<<>>>>, <<NameTDD>>}

AllFiles == {FileOrder[i] : i \in 1..Len(FileOrder)}

CompliantTracked == core \cup {".github/workflows/ccverify.yml"}

RefMaps == [1..Len(TagNameList) -> (-1)..NumCommits]

(* index of vK in TagNameList *)
VIndex(k) == IF k = 0 THEN 1 ELSE k + 2

OnlyV0 == [i \in 1..Len(TagNameList) |-> IF i = 1 THEN 1 ELSE -1]

NoTags == [i \in 1..Len(TagNameList) |-> -1]

(* A fully compliant repository: one commit on main, tagged v0. *)
GoodRepo ==
  [ pathExists  |-> TRUE,
    basename    |-> NameUNO,
    isGit       |-> TRUE,
    origin      |-> <<>>,
    tracked     |-> CompliantTracked,
    entries     |-> {"RULES.md", ".github", ".git"},
    license     |-> TextFile(UNLICENSE_TEXT),
    readme      |-> TextFile(ReadmeBoth),
    mainExists  |-> TRUE,
    mainCommits |-> {1},
    refs        |-> OnlyV0,
    fault       |-> "none" ]

(* every tracked set over the file names that occur *)
TrackedRepos == {[GoodRepo EXCEPT !.tracked = t] : t \in SUBSET AllFiles}

(* plain directories (no git), and a path that does not exist *)
DirRepos ==
  {[GoodRepo EXCEPT !.isGit = FALSE, !.entries = e, !.license = l, !.readme = r,
                    !.pathExists = p] :
     e \in SUBSET {"RULES.md", "NOTES.md", ".github", ".git"},
     l \in {MissingFile, TextFile(UNLICENSE_TEXT)},
     r \in {MissingFile, TextFile(ReadmeBoth)},
     p \in BOOLEAN}

(* file contents and name resolution *)
ContentRepos ==
  {[GoodRepo EXCEPT !.license = l, !.readme = r, !.origin = o, !.basename = b] :
     l \in LicenseFiles, r \in ReadmeFiles, o \in Origins, b \in {NameUNO, NameWork}}

(* every tag assignment against every non-empty main history *)
TagRepos ==
  {[GoodRepo EXCEPT !.refs = f, !.mainCommits = m] :
     f \in RefMaps, m \in (SUBSET Commits) \ {{}}}

(* violations of several checkers at once, with and without git failures *)
MixedRepos ==
  {[GoodRepo EXCEPT !.tracked = t, !.license = l, !.readme = r, !.refs = f,
                    !.mainExists = g[1], !.fault = g[2]] :
     t \in {CompliantTracked, CompliantTracked \ {"RULES.md"},
            CompliantTracked \cup {"NOTES.md"}, {}},
     l \in {TextFile(UNLICENSE_TEXT), TextFile(<<"a", "b", "\n">>), MissingFile,
            UndecodableFile},
     r \in {TextFile(ReadmeBoth), TextFile(ReadmeNeither), MissingFile, UndecodableFile},
     f \in {OnlyV0, NoTags, [OnlyV0 EXCEPT ![Len(TagNameList)] = NumCommits]},
     g \in {<<TRUE, "none">>, <<FALSE, "none">>, <<TRUE, "rev-list main">>,
            <<TRUE, "tag">>, <<TRUE, "rev-list -n 1">>}}

Inputs ==
  {[repo |-> r, name_override |-> <<>>] :
     r \in TrackedRepos \cup DirRepos \cup TagRepos \cup MixedRepos}
    \cup {[repo |-> r, name_override |-> o] : r \in ContentRepos, o \in Overrides}

(***************************************************************************)
(* State machine: one call of a public function on one snapshot            *)
(***************************************************************************)
(* the arguments of normalize_text that are explored: every text of at most *)
(* MaxTextLen characters over line endings, blanks and a visible character  *)
TextAlphabet == {"a", " ", "\t", "\n", "\r", ""}

Texts == UNION {[1..n -> TextAlphabet] : n \in 0..MaxTextLen}

(* the environments of main: the working directory and the terminal width *)
Env(cwd, columns) == [cwd |-> cwd, columns |-> columns]

ParentDir == <<<<"s", "r", "v">>>>

ColumnsInputs == {18, 40, 80, 100}

(* calls of main that verify the snapshot r with the name override o (None *)
(* or a string): without a path inside the directory of r, and with the    *)
(* relative path of r from its parent directory; the empty override is     *)
(* also passed as --name=--                                                *)
AcceptedCalls(r, o) ==
  IF o = <<>>
  THEN {[env |-> Env(Append(ParentDir, r.basename), 80), argv |-> <<>>],
        [env |-> Env(ParentDir, 80), argv |-> <<<<".", "/">> \o r.basename>>]}
  ELSE {[env |-> Env(Append(ParentDir, r.basename), 80), argv |-> <<OPT_NAME, o[1]>>],
        [env |-> Env(ParentDir, 80),
         argv |-> <<<<".", "/">> \o r.basename, OPT_NAME \o <<"=">> \o o[1]>>]}
         \cup (IF o[1] = <<>>
               THEN {[env |-> Env(ParentDir, 80),
                      argv |-> <<<<".", "/">> \o r.basename,
                                 OPT_NAME \o <<"=">> \o DASH_DASH>>]}
               ELSE {})

(* argument lists on which the parser exits: a missing value, an unknown   *)
(* option, a second path, an ambiguous abbreviation, a value given to -h,  *)
(* a "--" after the path was taken, and the requests for help              *)
ExitingArgvs ==
  {<<OPT_NAME>>,
   <<<<"-", "-", "b", "o", "g", "u", "s">>>>,
   <<<<"a">>, <<"b">>>>,
   <<<<"-", "-", "=", "x">>>>,
   <<<<"-", "h", "x">>>>,
   <<<<"-", "h", "h", "e", "l", "p">>>>,
   <<NameUNO, OPT_NAME, NameTDD, DASH_DASH>>,
   <<OPT_H>>,
   <<OPT_HELP>>,
   <<<<"-", "h", "h">>>>,
   <<<<"-", "-", "b", "o", "g", "u", "s">>, <<"-", "-", "h", "e">>>>}

(* the calls of main made in a state: those that pass the state's name     *)
(* override, and on the compliant repository also those on which the       *)
(* parser exits (its exits do not look at the repository), at every width  *)
MainInputs(r, o, t) ==
  AcceptedCalls(r, o)
    \cup (IF r = GoodRepo /\ o = <<>> /\ t = <<>>
          THEN {[env |-> Env(ParentDir, c), argv |-> a] :
                  c \in ColumnsInputs, a \in ExitingArgvs}
          ELSE {})

(* repo, name_override, in_text: the inputs of the call.                    *)
(* call: the function that was called ("none" before the call).            *)
(* ret: the error list a checker returned, or the exception that the call  *)
(*   propagated; check_result: the CheckResult verify_repo returned;       *)
(*   out_text: what normalize_text returned; exit_code: what main returned *)
(*   (-1 when it did not return); env, argv: the environment and the       *)
(*   argument list main was called with; stdout, stderr: what main printed.*)
VARIABLES repo, name_override, in_text, call, ret, check_result, out_text, exit_code,
          env, argv, stdout, stderr

vars == <<repo, name_override, in_text, call, ret, check_result, out_text, exit_code,
          env, argv, stdout, stderr>>

Init ==
  /\ \/ /\ \E in \in Inputs : repo = in.repo /\ name_override = in.name_override
        /\ in_text = <<>>
     \/ /\ repo = GoodRepo
        /\ name_override = <<>>
        /\ in_text \in Texts
  /\ call = "none"
  /\ ret = Return(<<>>)
  /\ check_result = [ok |-> FALSE, errors |-> <<>>]
  /\ out_text = <<>>
  /\ exit_code = -1
  /\ env = Env(<<>>, 80)
  /\ argv = <<>>
  /\ stdout = <<>>
  /\ stderr = <<>>

CallNormalizeText ==
  /\ call = "none"
  /\ call' = "normalize_text"
  /\ out_text' = normalize_text(in_text)
  /\ UNCHANGED <<repo, name_override, in_text, ret, check_result, exit_code, env, argv, stdout, stderr>>

CallCheckTrackedFiles ==
  /\ call = "none"
  /\ call' = "check_tracked_files"
  /\ ret' = check_tracked_files(repo)
  /\ UNCHANGED <<repo, name_override, in_text, check_result, out_text, exit_code, env, argv, stdout, stderr>>

CallCheckLicense ==
  /\ call = "none"
  /\ call' = "check_license"
  /\ ret' = check_license(repo)
  /\ UNCHANGED <<repo, name_override, in_text, check_result, out_text, exit_code, env, argv, stdout, stderr>>

CallCheckReadmeInstall ==
  /\ call = "none"
  /\ call' = "check_readme_install"
  /\ ret' = check_readme_install(repo, get_repo_name(repo, name_override))
  /\ UNCHANGED <<repo, name_override, in_text, check_result, out_text, exit_code, env, argv, stdout, stderr>>

CallCheckTags ==
  /\ call = "none"
  /\ ~get_main_commits(repo).raised
  /\ call' = "check_tags"
  /\ ret' = check_tags(repo, get_main_commits(repo).value)
  /\ UNCHANGED <<repo, name_override, in_text, check_result, out_text, exit_code, env, argv, stdout, stderr>>

CallVerifyRepo ==
  /\ call = "none"
  /\ call' = "verify_repo"
  /\ \E r \in {verify_repo(repo, name_override)} :
       /\ ret' = (IF r.raised THEN r ELSE Return(<<>>))
       /\ check_result' = (IF r.raised THEN check_result ELSE r.value)
  /\ UNCHANGED <<repo, name_override, in_text, out_text, exit_code, env, argv, stdout, stderr>>

CallMain ==
  /\ call = "none"
  /\ call' = "main"
  /\ \E i \in MainInputs(repo, name_override, in_text) :
       \E m \in {main(repo, i.env, i.argv)} :
         /\ env' = i.env
         /\ argv' = i.argv
         /\ ret' = (IF m.ret.raised THEN m.ret ELSE Return(<<>>))
         /\ exit_code' = (IF m.ret.raised THEN -1 ELSE m.ret.value)
         /\ stdout' = m.out
         /\ stderr' = m.err
  /\ UNCHANGED <<repo, name_override, in_text, check_result, out_text>>

Next ==
  \/ CallCheckTrackedFiles
  \/ CallCheckLicense
  \/ CallCheckReadmeInstall
  \/ CallCheckTags
  \/ CallVerifyRepo
  \/ CallMain
  \/ CallNormalizeText

Spec == Init /\ [][Next]_vars

TypeOK ==
  /\ call \in {"none", "normalize_text", "check_tracked_files", "check_license", "check_readme_install",
               "check_tags", "verify_repo", "main"}
  /\ ret.raised \in BOOLEAN

(***************************************************************************)
(* Vocabulary of the properties, taken from the snapshot (not from the     *)
(* checkers' code paths)                                                   *)
(***************************************************************************)
HasMsg(errs, m) == \E i \in 1..Len(errs) : errs[i].msg = m

CountMsg(errs, m) == Cardinality({i \in 1..Len(errs) : errs[i].msg = m})

TagMsgs ==
  {"Invalid tag name", "All vN tags must point to commits on main",
   "Main has N untagged commits", "vN tags must be contiguous from v0"}

(* which checker a message belongs to: 1 tracked files, 2 license,         *)
(* 3 README, 4 tags / git                                                  *)
CheckerOf(m) ==
  IF m \in {"Missing required files", "Missing required CI workflow",
            "Extra tracked files not allowed"} THEN 1
  ELSE IF m \in {"LICENSE file missing", "LICENSE is not the Unlicense"} THEN 2
  ELSE IF m \in {"README.md file missing", "README.md must include installation line",
                 "README.md must include link example"} THEN 3
  ELSE 4

RECURSIVE ErrorsOf(_, _)
(* the subsequence of errs that belongs to checker k *)
ErrorsOf(errs, k) ==
  IF errs = <<>> THEN <<>>
  ELSE (IF CheckerOf(errs[1].msg) = k THEN <<errs[1]>> ELSE <<>>)
         \o ErrorsOf(Tail(errs), k)

(* the tags that exist and name a commit, as indices into TagNameList *)
TagIdx == {i \in 1..Len(TagNameList) : repo.refs[i] > 0}

ExistingTagIdx == {i \in 1..Len(TagNameList) : repo.refs[i] # -1}

MatchingIdx == {i \in TagIdx : TAG_RE_match(TagNameList[i])}

VersionSet == {TagVersion(TagNameList[i]) : i \in MatchingIdx}

(* the versions are exactly 0..max, each carried by one tag *)
Contiguous ==
  \/ MatchingIdx = {}
  \/ /\ \A v \in VersionSet : \A w \in 0..v : w \in VersionSet
     /\ Cardinality(MatchingIdx) = Cardinality(VersionSet)

GitHealthy == repo.pathExists /\ repo.isGit /\ repo.mainExists /\ repo.fault = "none"

(* some git query of the tag-checking path fails *)
GitQueryFails ==
  \/ ~repo.isGit
  \/ ~repo.mainExists
  \/ repo.fault \in {"rev-list main", "tag"}
  \/ repo.fault = "rev-list -n 1" /\ ExistingTagIdx # {}

(* the three file checkers complete, so verify_repo runs the git queries *)
ReachesGitChecks ==
  /\ repo.pathExists
  /\ repo.license.st # "undecodable"
  /\ repo.readme.st # "undecodable"

FilesCompliant ==
  /\ repo.pathExists /\ repo.isGit
  /\ repo.tracked = {"LICENSE", "README.md", "RULES.md", ".github/workflows/ccverify.yml"}
  /\ repo.license.st = "text"
  /\ normalize_text(repo.license.text) = normalize_text(UNLICENSE_TEXT)
  /\ repo.readme.st = "text"
  /\ Contains(INSTALL_LINE, repo.readme.text)
  /\ Contains(LINK_PREFIX \o get_repo_name(repo, name_override), repo.readme.text)

(* the tags are exactly v0..vMax on main commits, and cover main *)
TagsCompliant ==
  /\ GitHealthy
  /\ \E max \in 0..MaxVersion : ExistingTagIdx = {VIndex(k) : k \in 0..max}
  /\ \A i \in ExistingTagIdx : repo.refs[i] \in repo.mainCommits
  /\ \A c \in repo.mainCommits : \E i \in ExistingTagIdx : repo.refs[i] = c

StrictlySortedFiles(fs) ==
  \A i, j \in 1..Len(fs) : i < j => FileRank(fs[i]) < FileRank(fs[j])

FileSetOf(fs) == {fs[i] : i \in 1..Len(fs)}

(* what check_tracked_files looks at *)
TrackedSet ==
  IF repo.isGit THEN repo.tracked
  ELSE {f \in repo.entries
               \cup (IF repo.license.st # "missing" THEN {"LICENSE"} ELSE {})
               \cup (IF repo.readme.st # "missing" THEN {"README.md"} ELSE {}) :
          f \notin {".git", ".github"}}

(***************************************************************************)
(* Properties                                                              *)
(***************************************************************************)

(* C1: the CheckResult returned by verify_repo has ok = TRUE exactly when  *)
(* its errors list is empty; main returns 0 and prints only the success    *)
(* line exactly when ok is TRUE, and otherwise returns 1 and prints, after *)
(* the INVALID header, one "- <error>" line per error in the same order.   *)
C1_OkIffNoErrorsAndExitCode ==
  /\ (call = "verify_repo" /\ ~ret.raised) =>
        (check_result.ok <=> check_result.errors = <<>>)
  /\ (call = "main" /\ ~ret.raised) =>
        LET result == verify_repo(repo, name_override).value
        IN /\ exit_code = 0 <=> result.ok
           /\ exit_code = 0 <=> stdout = <<Line("OK: rules repo is valid.", <<>>)>>
           /\ exit_code # 0 =>
                /\ exit_code = 1
                /\ Len(stdout) = Len(result.errors) + 1
                /\ stdout[1] = Line("INVALID: rules repo failed validation:", <<>>)
                /\ \A i \in 1..Len(result.errors) :
                     stdout[i + 1] = Line("- ", <<result.errors[i]>>)

C1_Witness ==
  /\ call = "main" /\ ~ret.raised /\ exit_code = 1
  /\ Len(stdout) >= 4
  /\ stdout[2].err # stdout[3].err

(* C2: a repository with exactly the four required files tracked, a        *)
(* LICENSE that normalizes to the canonical text, a README with both       *)
(* required substrings for the resolved name, and tags v0..vMax on main    *)
(* commits covering every main commit verifies with ok = TRUE, no errors.  *)
C2_CompliantRepoVerifies ==
  (call = "verify_repo" /\ FilesCompliant /\ TagsCompliant) =>
     /\ ~ret.raised
     /\ check_result.ok
     /\ check_result.errors = <<>>

C2_Witness ==
  /\ call = "verify_repo" /\ FilesCompliant /\ TagsCompliant
  /\ ExistingTagIdx = {VIndex(0), VIndex(1), VIndex(2)}
  /\ Cardinality(repo.mainCommits) = 2
  /\ ~ret.raised /\ check_result.ok

C2_WitnessDenormalLicense ==
  /\ call = "verify_repo" /\ FilesCompliant /\ TagsCompliant
  /\ repo.license.text # UNLICENSE_TEXT
  /\ ~ret.raised /\ check_result.ok

(* C3: check_tracked_files emits at most three errors, decided             *)
(* independently and in this order: missing files iff CORE - tracked is    *)
(* non-empty (names sorted), missing CI workflow iff neither ccverify.yml  *)
(* nor ccverify.yaml is tracked, extra files iff tracked - CORE - CI_PATHS *)
(* is non-empty (names sorted).  A compliant set minus RULES.md gives      *)
(* exactly one error naming RULES.md; a compliant set plus NOTES.md gives  *)
(* exactly one error naming NOTES.md.                                      *)
C3_TrackedFileErrors ==
  (call = "check_tracked_files" /\ ~ret.raised) =>
    LET errs    == ret.value
        missing == {"LICENSE", "README.md", "RULES.md"} \ TrackedSet
        no_ci   == /\ ".github/workflows/ccverify.yml" \notin TrackedSet
                   /\ ".github/workflows/ccverify.yaml" \notin TrackedSet
        extra   == {f \in TrackedSet :
                      f \notin {"LICENSE", "README.md", "RULES.md",
                                ".github/workflows/ccverify.yml",
                                ".github/workflows/ccverify.yaml"}}
    IN /\ Len(errs) <= 3
       /\ CountMsg(errs, "Missing required files") = (IF missing # {} THEN 1 ELSE 0)
       /\ CountMsg(errs, "Missing required CI workflow") = (IF no_ci THEN 1 ELSE 0)
       /\ CountMsg(errs, "Extra tracked files not allowed") = (IF extra # {} THEN 1 ELSE 0)
       /\ \A i \in 1..Len(errs) :
            /\ errs[i].msg \in {"Missing required files", "Missing required CI workflow",
                                "Extra tracked files not allowed"}
            /\ StrictlySortedFiles(errs[i].files)
            /\ errs[i].msg = "Missing required files" => FileSetOf(errs[i].files) = missing
            /\ errs[i].msg = "Extra tracked files not allowed" =>
                 FileSetOf(errs[i].files) = extra
       /\ \A i, j \in 1..Len(errs) :
            i < j =>
              /\ errs[i].msg # "Extra tracked files not allowed"
              /\ errs[j].msg # "Missing required files"
       /\ TrackedSet = {"LICENSE", "README.md", ".github/workflows/ccverify.yml"} =>
            errs = <<Err("Missing required files", <<"RULES.md">>, <<>>, <<>>, "")>>
       /\ TrackedSet = {"LICENSE", "README.md", "RULES.md", "NOTES.md",
                        ".github/workflows/ccverify.yml"} =>
            errs = <<Err("Extra tracked files not allowed", <<"NOTES.md">>, <<>>, <<>>, "")>>

C3_Witness ==
  /\ call = "check_tracked_files" /\ ~ret.raised
  /\ Len(ret.value) = 3
  /\ Len(ret.value[1].files) = 2
  /\ Len(ret.value[3].files) = 2

(* C4: when at least one tag exists, check_tags emits the "must be         *)
(* contiguous from v0" error exactly when the versions parsed from the     *)
(* pattern-matching tag names are not 0..max each exactly once (a gap, a   *)
(* duplicate, or a start above 0), whatever commits the tags point to; the *)
(* error lists the versions in ascending order.  Tags {v0, v2} covering a  *)
(* two-commit main give the contiguity error and neither the off-main nor  *)
(* the untagged error.                                                     *)
C4_ContiguityError ==
  (call = "check_tags" /\ ~ret.raised /\ TagIdx # {}) =>
    LET errs == ret.value
    IN /\ CountMsg(errs, "vN tags must be contiguous from v0")
            = (IF Contiguous THEN 0 ELSE 1)
       /\ \A i \in 1..Len(errs) :
            errs[i].msg = "vN tags must be contiguous from v0" =>
              /\ Len(errs[i].nums) = Cardinality(MatchingIdx)
              /\ {errs[i].nums[k] : k \in 1..Len(errs[i].nums)} = VersionSet
              /\ \A k \in 1..(Len(errs[i].nums) - 1) :
                   errs[i].nums[k] <= errs[i].nums[k + 1]
       /\ ( /\ ExistingTagIdx = {VIndex(0), VIndex(2)}
            /\ repo.mainCommits = {repo.refs[VIndex(0)], repo.refs[VIndex(2)]}
            /\ Cardinality(repo.mainCommits) = 2 ) =>
            errs = <<Err("vN tags must be contiguous from v0", <<>>, <<>>, <<0, 2>>, "")>>

C4_Witness ==
  /\ call = "check_tags" /\ ~ret.raised
  /\ ExistingTagIdx = {VIndex(0), VIndex(2)}
  /\ repo.mainCommits = {repo.refs[VIndex(0)], repo.refs[VIndex(2)]}
  /\ Cardinality(repo.mainCommits) = 2
  /\ HasMsg(ret.value, "vN tags must be contiguous from v0")

(* C5: a tag named v01 or version1 makes check_tags emit an "invalid tag   *)
(* name" error for that tag, and the name contributes no integer to the    *)
(* sequence of the contiguity check.                                       *)
C5_InvalidNamesReported ==
  (call = "check_tags" /\ ~ret.raised) =>
    \A i \in TagIdx :
      TagNameList[i] \in {<<"v", "0", "1">>, <<"v", "e", "r", "s", "i", "o", "n", "1">>} =>
        /\ \E k \in 1..Len(ret.value) :
             ret.value[k].msg = "Invalid tag name" /\ ret.value[k].name = TagNameList[i]
        /\ \A k \in 1..Len(ret.value) :
             ret.value[k].msg = "vN tags must be contiguous from v0" =>
               Len(ret.value[k].nums) <= Cardinality(TagIdx \ {i})

(* C6: when `git tag` lists zero tags, check_tags returns no errors         *)
(* whatever the commits of main, so an otherwise compliant repository with *)
(* zero tags verifies with ok = TRUE.                                      *)
C6_ZeroTagsPass ==
  /\ (call = "check_tags" /\ ExistingTagIdx = {} /\ repo.fault # "tag") =>
        /\ ~ret.raised
        /\ ret.value = <<>>
  /\ (call = "verify_repo" /\ ExistingTagIdx = {} /\ FilesCompliant /\ GitHealthy) =>
        /\ ~ret.raised
        /\ check_result.ok

C6_Witness ==
  /\ call = "check_tags" /\ ExistingTagIdx = {}
  /\ Cardinality(repo.mainCommits) = NumCommits
  /\ ~ret.raised /\ ret.value = <<>>

C6_WitnessVerify ==
  /\ call = "verify_repo" /\ ExistingTagIdx = {} /\ FilesCompliant /\ GitHealthy
  /\ ~ret.raised /\ check_result.ok

(* C7: when at least one tag exists, check_tags emits the off-main error   *)
(* exactly when some tag's commit is not a main commit, and the untagged   *)
(* error exactly when some main commit is the target of no tag, with N the *)
(* number of such commits; all tags count, also those whose names do not   *)
(* match vN.                                                               *)
C7_OffMainAndUntagged ==
  (call = "check_tags" /\ ~ret.raised /\ TagIdx # {}) =>
    LET errs     == ret.value
        off_main == \E i \in TagIdx : repo.refs[i] \notin repo.mainCommits
        bare     == {c \in repo.mainCommits : \A i \in TagIdx : repo.refs[i] # c}
    IN /\ CountMsg(errs, "All vN tags must point to commits on main")
            = (IF off_main THEN 1 ELSE 0)
       /\ CountMsg(errs, "Main has N untagged commits") = (IF bare # {} THEN 1 ELSE 0)
       /\ \A k \in 1..Len(errs) :
            errs[k].msg = "Main has N untagged commits" =>
              errs[k].nums = <<Cardinality(bare)>>

C7_Witness ==
  /\ call = "check_tags" /\ ~ret.raised
  /\ \E i \in TagIdx :
       /\ ~TAG_RE_match(TagNameList[i])
       /\ \E j \in TagIdx : j # i /\ repo.refs[j] # repo.refs[i]
       /\ \A j \in TagIdx : j # i => TAG_RE_match(TagNameList[j])
       /\ repo.mainCommits = {repo.refs[j] : j \in TagIdx}
       /\ Cardinality(repo.mainCommits) = 2
  /\ ~HasMsg(ret.value, "Main has N untagged commits")
  /\ ~HasMsg(ret.value, "All vN tags must point to commits on main")
  /\ HasMsg(ret.value, "Invalid tag name")

(* C8: when verify_repo reaches the tag-checking path and a git query of   *)
(* that path fails, verify_repo returns a result that ends with exactly    *)
(* one "Git checks failed" error, holds no                                 *)
(* other error of the tag checker, and still holds every error of the      *)
(* tracked-file, license and README checkers.                              *)
C8_GitFailureIsOneError ==
  (call = "verify_repo" /\ ReachesGitChecks /\ GitQueryFails) =>
    LET errs == check_result.errors
    IN /\ ~ret.raised
       /\ errs # <<>>
       /\ errs[Len(errs)].msg = "Git checks failed"
       /\ errs[Len(errs)].cause # ""
       /\ CountMsg(errs, "Git checks failed") = 1
       /\ \A m \in TagMsgs : ~HasMsg(errs, m)
       /\ ErrorsOf(errs, 1) = check_tracked_files(repo).value
       /\ ErrorsOf(errs, 2) = check_license(repo).value
       /\ ErrorsOf(errs, 3)
            = check_readme_install(repo, get_repo_name(repo, name_override)).value

C8_Witness ==
  /\ call = "verify_repo" /\ ~ret.raised
  /\ repo.isGit /\ repo.mainExists /\ repo.fault = "rev-list -n 1"
  /\ Len(check_result.errors) >= 4
  /\ check_result.errors[Len(check_result.errors)].msg = "Git checks failed"

(* C9: verify_repo always returns a CheckResult (it never propagates an   *)
(* exception), and main, called with arguments that its parser accepts,    *)
(* always completes with exit code 0 or 1.                                 *)
C9_NothingIsFatal ==
  /\ call = "verify_repo" => ~ret.raised
  /\ (call = "main" /\ parse_args(argv).status = "ok") =>
       ~ret.raised /\ exit_code \in {0, 1}

(* C10: the errors of verify_repo are the errors of the tracked-file,      *)
(* license, README and tag checkers, concatenated in that order.           *)
C10_ErrorsInCheckerOrder ==
  (call = "verify_repo" /\ ~ret.raised) =>
    LET errs == check_result.errors
    IN /\ \A i, j \in 1..Len(errs) :
            i < j => CheckerOf(errs[i].msg) <= CheckerOf(errs[j].msg)
       /\ ErrorsOf(errs, 1) = check_tracked_files(repo).value
       /\ ErrorsOf(errs, 2) = check_license(repo).value
       /\ ErrorsOf(errs, 3)
            = check_readme_install(repo, get_repo_name(repo, name_override)).value
       /\ GitHealthy => ErrorsOf(errs, 4) = check_tags(repo, repo.mainCommits).value

C10_Witness ==
  /\ call = "verify_repo" /\ ~ret.raised
  /\ \A k \in 1..4 : ErrorsOf(check_result.errors, k) # <<>>
  /\ GitHealthy
  /\ Len(check_result.errors) >= 6

(* C11: normalize_text is idempotent: normalizing an already normalized    *)
(* text returns it unchanged, for every text over "\r\n", lone "\r", "\n", *)
(* spaces, tabs and other characters, the empty text included.             *)
C11_NormalizeIdempotent ==
  call = "normalize_text" => normalize_text(out_text) = out_text

C11_Witness ==
  /\ call = "normalize_text"
  /\ Len(in_text) = MaxTextLen
  /\ \E i \in 1..(Len(in_text) - 1) : in_text[i] = "\r" /\ in_text[i + 1] = "\n"
  /\ \E i \in 1..Len(in_text) : in_text[i] = "\r" /\ (i = Len(in_text) \/ in_text[i + 1] # "\n")
  /\ \E i \in 1..Len(in_text) : in_text[i] \in {" ", "\t"}
  /\ \E i \in 1..Len(in_text) : in_text[i] = "a"
  /\ out_text # in_text

C11_WitnessEmpty ==
  /\ call = "normalize_text" /\ in_text = <<>> /\ out_text = <<"\n">>

(* C12: the version integers that check_tags parses from the               *)
(* pattern-matching names of distinct tags are pairwise distinct, so the   *)
(* list of the contiguity check never holds the same integer twice.        *)
C12_NoDuplicateVersions ==
  (call = "check_tags" /\ ~ret.raised) =>
     /\ \A i, j \in MatchingIdx :
          i # j => TagVersion(TagNameList[i]) # TagVersion(TagNameList[j])
     /\ \A k \in 1..Len(ret.value) :
          ret.value[k].msg = "vN tags must be contiguous from v0" =>
            \A a, b \in 1..Len(ret.value[k].nums) :
              a < b => ret.value[k].nums[a] # ret.value[k].nums[b]

====
